---- MODULE Spec2Model ----
(***************************************************************************)
(* Model of the AI code review assistant: the webhook orchestrator         *)
(* (app/webhook.py), the review pipeline (app/ai_reviewer.py) and the      *)
(* helpers of app/utils.py.                                                *)
(*                                                                         *)
(* Text is a sequence of characters, each character a one-character        *)
(* string.  Indices of the Python helpers (find, rfind, slices) are        *)
(* 0-based as in the source; -1 is "not found".                            *)
(***************************************************************************)
EXTENDS Integers, Sequences, FiniteSets, TLC

VARIABLES
    pc,         \* position of the operation under way
    req,        \* the inbound request / the inputs of the function applied
    data,       \* handle_webhook: the parsed body (a JSON value)
    calls,      \* handle_webhook: the steps and collaborators invoked so far
    env,        \* the collaborators' behaviour during this transaction
    out         \* the value returned, the HTTP error or the exception raised

vars == <<pc, req, data, calls, env, out>>

-----------------------------------------------------------------------------
(* Characters and Python string helpers *)

\* The sequence of the characters of a string literal.
Chars(s) == [i \in 1..Len(s) |-> SubSeq(s, i, i)]

\* U+0060, the backtick (it cannot be written inside a string literal).
BQ == "U+0060"

\* U+00E9, a character outside ASCII.
EAcute == "U+00E9"

\* The character at 1-based position i, "" past either end.
At(t, i) == IF i >= 1 /\ i <= Len(t) THEN t[i] ELSE ""

\* Whether pat occurs in t at 0-based offset k.
MatchesAt(t, pat, k) ==
    /\ k >= 0
    /\ k + Len(pat) <= Len(t)
    /\ \A j \in 1..Len(pat) : t[k + j] = pat[j]

\* str.find(pat, start): the lowest 0-based offset >= start, or -1.
Find(t, pat, start) ==
    LET hits == {k \in start..(Len(t) - Len(pat)) : MatchesAt(t, pat, k)}
    IN  IF hits = {} THEN -1 ELSE CHOOSE k \in hits : \A h \in hits : k <= h

\* str.rfind(pat): the highest 0-based offset, or -1.
RFind(t, pat) ==
    LET hits == {k \in 0..(Len(t) - Len(pat)) : MatchesAt(t, pat, k)}
    IN  IF hits = {} THEN -1 ELSE CHOOSE k \in hits : \A h \in hits : k >= h

\* pat in t
Contains(t, pat) == Find(t, pat, 0) # -1

\* A slice bound as Python resolves it: negative counts from the end, then
\* clamped to 0..len.
SliceIndex(t, i) ==
    LET j == IF i < 0 THEN i + Len(t) ELSE i
    IN  IF j < 0 THEN 0 ELSE IF j > Len(t) THEN Len(t) ELSE j

\* t[a:b]
Slice(t, a, b) == SubSeq(t, SliceIndex(t, a) + 1, SliceIndex(t, b))

\* The whitespace of the model's alphabet (str.strip and JSON agree on it).
Whitespace == {" ", "\n", "\t", "\r"}

RECURSIVE LStrip(_)
LStrip(t) == IF t # <<>> /\ Head(t) \in Whitespace THEN LStrip(Tail(t)) ELSE t

RECURSIVE RStrip(_)
RStrip(t) ==
    IF t # <<>> /\ t[Len(t)] \in Whitespace
    THEN RStrip(SubSeq(t, 1, Len(t) - 1))
    ELSE t

\* str.strip()
Strip(t) == RStrip(LStrip(t))

-----------------------------------------------------------------------------
(* JSON values and json.loads *)

\* A JSON value as Python holds it: t is the type, and one of n (int),
\* s (str), a (list) or o (dict: a function from keys to values) carries it.
JV(t, n, s, a, o) == [t |-> t, n |-> n, s |-> s, a |-> a, o |-> o]
JNull == JV("null", 0, <<>>, <<>>, <<>>)
JTrue == JV("true", 0, <<>>, <<>>, <<>>)
JFalse == JV("false", 0, <<>>, <<>>, <<>>)
JNum(n) == JV("num", n, <<>>, <<>>, <<>>)
JStr(s) == JV("str", 0, s, <<>>, <<>>)
JArr(a) == JV("arr", 0, <<>>, a, <<>>)
JObj(o) == JV("obj", 0, <<>>, <<>>, o)

\* dict[key] = val (a repeated key keeps the last value, as json.loads does)
DictPut(o, key, val) ==
    [k \in (DOMAIN o) \cup {key} |-> IF k = key THEN val ELSE o[k]]

Digits == {"0", "1", "2", "3", "4", "5", "6", "7", "8", "9"}

DigitVal(c) ==
    CASE c = "0" -> 0 [] c = "1" -> 1 [] c = "2" -> 2 [] c = "3" -> 3
      [] c = "4" -> 4 [] c = "5" -> 5 [] c = "6" -> 6 [] c = "7" -> 7
      [] c = "8" -> 8 [] c = "9" -> 9

\* What a failed scan returns.
NoParse == [ok |-> FALSE, v |-> JNull, i |-> 0]

Parsed(v, i) == [ok |-> TRUE, v |-> v, i |-> i]

RECURSIVE SkipWs(_, _)
SkipWs(t, i) == IF At(t, i) \in Whitespace THEN SkipWs(t, i + 1) ELSE i

\* The position of the quote closing a string whose content starts at j, or 0:
\* a control character inside a string is an error (strict mode).  The
\* alphabet holds no backslash, so no escape is scanned.
RECURSIVE StrEnd(_, _)
StrEnd(t, j) ==
    IF j > Len(t) THEN 0
    ELSE IF t[j] = "\"" THEN j
    ELSE IF t[j] \in {"\n", "\t", "\r"} THEN 0
    ELSE StrEnd(t, j + 1)

ParseString(t, i) ==
    LET e == StrEnd(t, i + 1)
    IN  IF e = 0 THEN NoParse ELSE Parsed(JStr(SubSeq(t, i + 1, e - 1)), e + 1)

RECURSIVE DigitsEnd(_, _)
DigitsEnd(t, j) == IF At(t, j) \in Digits THEN DigitsEnd(t, j + 1) ELSE j

RECURSIVE DigitsValue(_, _, _)
DigitsValue(t, j, e) ==
    IF j >= e THEN 0
    ELSE DigitVal(t[e - 1]) + 10 * DigitsValue(t, j, e - 1)

\* An integer: -?(0|[1-9][0-9]*).  The alphabet holds no fraction or exponent.
ParseNumber(t, i) ==
    LET neg == At(t, i) = "-"
        j == IF neg THEN i + 1 ELSE i
        e == IF At(t, j) = "0" THEN j + 1 ELSE DigitsEnd(t, j)
        n == DigitsValue(t, j, e)
    IN  IF e = j THEN NoParse ELSE Parsed(JNum(IF neg THEN 0 - n ELSE n), e)

RECURSIVE ParseValue(_, _)
RECURSIVE ParseMembers(_, _, _)
RECURSIVE ParseElems(_, _, _)

\* The members of an object from position i (a key is expected there).
ParseMembers(t, i, acc) ==
    IF At(t, i) # "\"" THEN NoParse
    ELSE LET key == ParseString(t, i)
             c == SkipWs(t, key.i)
             val == ParseValue(t, SkipWs(t, c + 1))
             d == SkipWs(t, val.i)
             o == DictPut(acc, key.v.s, val.v)
         IN  IF ~key.ok \/ At(t, c) # ":" THEN NoParse
             ELSE IF ~val.ok THEN NoParse
             ELSE IF At(t, d) = "}" THEN Parsed(JObj(o), d + 1)
             ELSE IF At(t, d) = "," THEN ParseMembers(t, SkipWs(t, d + 1), o)
             ELSE NoParse

\* The elements of an array from position i (a value is expected there).
ParseElems(t, i, acc) ==
    LET val == ParseValue(t, i)
        d == SkipWs(t, val.i)
        a == Append(acc, val.v)
    IN  IF ~val.ok THEN NoParse
        ELSE IF At(t, d) = "]" THEN Parsed(JArr(a), d + 1)
        ELSE IF At(t, d) = "," THEN ParseElems(t, SkipWs(t, d + 1), a)
        ELSE NoParse

\* The value starting at position i.
ParseValue(t, i) ==
    LET c == At(t, i)
    IN  IF c = "{" THEN
            (IF At(t, SkipWs(t, i + 1)) = "}"
             THEN Parsed(JObj(<<>>), SkipWs(t, i + 1) + 1)
             ELSE ParseMembers(t, SkipWs(t, i + 1), <<>>))
        ELSE IF c = "[" THEN
            (IF At(t, SkipWs(t, i + 1)) = "]"
             THEN Parsed(JArr(<<>>), SkipWs(t, i + 1) + 1)
             ELSE ParseElems(t, SkipWs(t, i + 1), <<>>))
        ELSE IF c = "\"" THEN ParseString(t, i)
        ELSE IF c = "-" \/ c \in Digits THEN ParseNumber(t, i)
        ELSE IF MatchesAt(t, Chars("null"), i - 1) THEN Parsed(JNull, i + 4)
        ELSE IF MatchesAt(t, Chars("true"), i - 1) THEN Parsed(JTrue, i + 4)
        ELSE IF MatchesAt(t, Chars("false"), i - 1) THEN Parsed(JFalse, i + 5)
        ELSE NoParse

\* json.loads(t): [ok |-> TRUE, v |-> the value], or ok = FALSE where it
\* raises JSONDecodeError (no value, or extra data after it).
JsonLoads(t) ==
    LET r == ParseValue(t, SkipWs(t, 1))
    IN  IF r.ok /\ SkipWs(t, r.i) = Len(t) + 1
        THEN [ok |-> TRUE, v |-> r.v]
        ELSE [ok |-> FALSE, v |-> JNull]

-----------------------------------------------------------------------------
(* ai_reviewer.py: parse_ai_response *)

\* The marker of a code fence, and of a fence labelled json.
Fence == <<BQ, BQ, BQ>>
FenceJson == Fence \o Chars("json")

RawResponseLimit == 500

\* A dict literal of string keys.
Dict1(k1, v1) == JObj(DictPut(<<>>, Chars(k1), v1))
Dict2(k1, v1, k2, v2) == JObj(DictPut(Dict1(k1, v1).o, Chars(k2), v2))
Dict3(k1, v1, k2, v2, k3, v3) ==
    JObj(DictPut(Dict2(k1, v1, k2, v2).o, Chars(k3), v3))

Issue(severity, message, suggestion) ==
    Dict3("severity", JStr(Chars(severity)), "message", JStr(message),
          "suggestion", JStr(Chars(suggestion)))

\* The fallback response of parse_ai_response.
Fallback(response_text) ==
    Dict3("summary", JStr(Chars("Review completed but response parsing failed.")),
          "issues", JArr(<<Issue("Low", Chars("AI response could not be parsed"),
                                 "Check the raw AI output for details")>>),
          "raw_response", JStr(Slice(response_text, 0, RawResponseLimit)))

\* The text between the first marker (of length width) and the next fence:
\* find's result is used as the end of the slice as it is, -1 included.
FencedText(response_text, marker, width) ==
    LET start == Find(response_text, marker, 0) + width
        end == Find(response_text, Fence, start)
    IN  Strip(Slice(response_text, start, end))

\* The text from the first "{" to the last "}"; ok is the guard
\* start != -1 and end != 0.
BraceText(response_text) ==
    LET start == Find(response_text, <<"{">>, 0)
        end == RFind(response_text, <<"}">>) + 1
    IN  [ok |-> start # -1 /\ end # 0, s |-> Slice(response_text, start, end)]

\* The second try block: one branch is chosen by what the text contains, and
\* a decoding error in it ends the extraction.
ExtractJson(response_text) ==
    IF Contains(response_text, FenceJson)
    THEN JsonLoads(FencedText(response_text, FenceJson, 7))
    ELSE IF Contains(response_text, Fence)
    THEN JsonLoads(FencedText(response_text, Fence, 3))
    ELSE IF BraceText(response_text).ok
    THEN JsonLoads(BraceText(response_text).s)
    ELSE [ok |-> FALSE, v |-> JNull]

\* parse_ai_response(response_text): the value returned.
ParseAiResponse(response_text) ==
    LET direct == JsonLoads(response_text)
        extracted == ExtractJson(response_text)
    IN  IF direct.ok THEN direct.v
        ELSE IF extracted.ok THEN extracted.v
        ELSE Fallback(response_text)

-----------------------------------------------------------------------------
(* Inputs, outcomes *)

\* What an operation ended with: a returned value, an HTTPException with its
\* status code, or another exception raised to the caller.
NoOut == [kind |-> "none", v |-> JNull, code |-> 0, exc |-> ""]
Returned(v) == [kind |-> "returned", v |-> v, code |-> 0, exc |-> ""]
HttpError(code) == [kind |-> "http_error", v |-> JNull, code |-> code, exc |-> ""]
Raised(exc) == [kind |-> "raised", v |-> JNull, code |-> 0, exc |-> exc]

\* A well-formed review as the prompt asks for it.
ResultText == Chars("{\"summary\":\"ok\",\"issues\":[]}")

\* The fragments model replies are made of.
ReplyPieces ==
    {Fence, Chars("json"), Chars("{}"), <<"{">>, <<"}">>, ResultText,
     <<"x">>, <<"\n">>}

\* The texts made of at most n fragments.
RECURSIVE TextsOf(_, _)
TextsOf(pieces, n) ==
    IF n = 0 THEN {<<>>}
    ELSE LET shorter == TextsOf(pieces, n - 1)
         IN  shorter \cup {t \o p : t \in shorter, p \in pieces}

MaxPieces == 4

Idle == <<>>

-----------------------------------------------------------------------------
(* parse_ai_response applied to a reply *)

InitNormalize ==
    /\ pc = "normalize"
    /\ req \in {[text |-> t] : t \in TextsOf(ReplyPieces, MaxPieces)}
    /\ data = Idle
    /\ calls = Idle
    /\ env = Idle
    /\ out = NoOut

Normalize ==
    /\ pc = "normalize"
    /\ out' = Returned(ParseAiResponse(req.text))
    /\ pc' = "done"
    /\ UNCHANGED <<req, data, calls, env>>

NextNormalize == Normalize

SpecNormalize == InitNormalize /\ [][NextNormalize]_vars

\* The text strategy 2 or 3 parses: strictly between the first marker and the
\* next fence after it.  Where no fence follows, the strategy has no text, or,
\* with toEnd, the rest of the reply.
ClaimedFenced(text, marker, toEnd) ==
    LET start == Find(text, marker, 0) + Len(marker)
        end == Find(text, Fence, start)
    IN  IF end # -1 THEN [ok |-> TRUE, s |-> Slice(text, start, end)]
        ELSE IF toEnd THEN [ok |-> TRUE, s |-> Slice(text, start, Len(text))]
        ELSE [ok |-> FALSE, s |-> <<>>]

\* The text strategy 4 parses: from the first "{" to the last "}" inclusive.
ClaimedBrace(text) ==
    LET first == Find(text, <<"{">>, 0)
        last == RFind(text, <<"}">>)
    IN  [ok |-> first # -1 /\ last # -1 /\ first < last,
         s |-> Slice(text, first, last + 1)]

\* The four strategies in priority order, each with the condition under which
\* it is tried.  As stated, 3 and 4 are tried only when the earlier kind of
\* fence is absent ("else"); with fallThrough a later strategy is also tried
\* after an earlier one failed to parse.
ClaimedStrategies(text, fallThrough, toEnd) ==
    <<[applies |-> TRUE, c |-> [ok |-> TRUE, s |-> text]],
      [applies |-> Contains(text, FenceJson),
       c |-> ClaimedFenced(text, FenceJson, toEnd)],
      [applies |-> Contains(text, Fence)
                     /\ (fallThrough \/ ~Contains(text, FenceJson)),
       c |-> ClaimedFenced(text, Fence, toEnd)],
      [applies |-> fallThrough \/ ~Contains(text, Fence),
       c |-> ClaimedBrace(text)]>>

\* normalize as specified: the parse of the first strategy that applies and
\* parses, and the fixed fallback when none does.
ClaimedNormalize(text, fallThrough, toEnd) ==
    LET st == ClaimedStrategies(text, fallThrough, toEnd)
        wins == {i \in 1..4 : st[i].applies /\ st[i].c.ok /\ JsonLoads(st[i].c.s).ok}
    IN  IF wins = {} THEN Fallback(text)
        ELSE JsonLoads(st[CHOOSE i \in wins : \A j \in wins : i <= j].c.s).v

\* C8: the value returned is the parse of the first strategy, in the order
\* whole text, json fence, any fence, braces, that applies and parses.  Every
\* reading of what the claim leaves open is accepted.
C8_FirstStrategyInOrderWins ==
    pc = "done" =>
        out.v \in {ClaimedNormalize(req.text, f, e) : f \in BOOLEAN, e \in BOOLEAN}

\* No strategy parses, under any reading of the strategies.
NoStrategyParses(text) ==
    \A f \in BOOLEAN, e \in BOOLEAN : ClaimedNormalize(text, f, e) = Fallback(text)

\* C9: normalize returns a value for every text, and when no extraction
\* strategy parses that value is the fixed fallback, raw_response being the
\* first 500 characters of the text.
C9_FallbackWhenNothingParses ==
    pc = "done" =>
        /\ out.kind = "returned"
        /\ NoStrategyParses(req.text) => out.v = Fallback(req.text)

-----------------------------------------------------------------------------
(* ai_reviewer.py: create_review_prompt, review_code *)

MAX_DIFF_LENGTH == 10000

TruncationMarker == Chars("\n\n[... diff truncated for length ...]")

\* create_review_prompt(code_diff): the template with the diff inside a fence.
\* The instructions that open the template are one element of the text.
CreateReviewPrompt(code_diff) ==
    <<"<instructions>">> \o Chars("## Code Diff to Review:\n\n") \o Fence
        \o <<"\n">> \o code_diff \o <<"\n">> \o Fence
        \o Chars("\n\nRemember: Respond with ONLY the JSON object, no additional text or markdown.\n")

\* The diff embedded whole, whatever its length.
UncappedDiff(code_diff) == code_diff

\* The diff as review_code embeds it.
CappedDiff(code_diff) ==
    IF Len(code_diff) > MAX_DIFF_LENGTH
    THEN Slice(code_diff, 0, MAX_DIFF_LENGTH) \o TruncationMarker
    ELSE code_diff

\* How the model call behaves: it returns the reply, returns no content,
\* or raises a ValueError or another exception.
ModelCalls == {"text", "no_content", "ValueError", "Exception"}

\* str(e) of what a model call raised.
ErrorText(call) ==
    CASE call = "ValueError" -> Chars("invalid value")
      [] call = "Exception" -> Chars("Connection error.")
      [] call = "no_content" -> Chars("object of type 'NoneType' has no len()")

\* The result of the except ValueError branch.
ConfigErrorResult(message) ==
    Dict2("summary", JStr(Chars("Review failed due to configuration error.")),
          "issues", JArr(<<Issue("Critical", message,
                                 "Check your .env file and ensure OPENAI_API_KEY is set")>>))

\* The result of the except Exception branch.
ErrorResult(message) ==
    Dict2("summary", JStr(Chars("Review failed due to an error.")),
          "issues", JArr(<<Issue("Critical", Chars("AI review error: ") \o message,
                                 "Check your API key and network connection")>>))

\* One invocation of a step or a collaborator, with the text handed to it.
Call(op, arg) == [op |-> op, arg |-> arg]

\* The model calls review_code makes: none without the API key.
ModelCallsOf(code_diff, e) ==
    IF e.api_key
    THEN <<Call("model", CreateReviewPrompt(CappedDiff(code_diff)))>>
    ELSE <<>>

\* review_code(code_diff), with the key and the model behaving as e says.
ReviewCode(code_diff, e) ==
    IF ~e.api_key THEN ConfigErrorResult(Chars("OPENAI_API_KEY is required"))
    ELSE IF e.call = "text" THEN ParseAiResponse(e.reply)
    ELSE IF e.call = "ValueError" THEN ConfigErrorResult(ErrorText(e.call))
    ELSE ErrorResult(ErrorText(e.call))

-----------------------------------------------------------------------------
(* review_code applied to a diff *)

MaxReplyPieces == 2

ReviewDiffs == {Chars("+x"), Chars("-a\n+b")}

\* The behaviours of the model provider: the key, the call, the reply.
ReviewEnvs(replies) == [api_key : BOOLEAN, call : ModelCalls, reply : replies]

\* A diff of n characters: "a" up to the limit of review_code, "b" beyond it.
LongDiff(n) == [i \in 1..n |-> IF i <= MAX_DIFF_LENGTH THEN "a" ELSE "b"]

\* Diffs at the limit, one character over it, and well over it.
LongDiffs == {LongDiff(n) : n \in {MAX_DIFF_LENGTH, MAX_DIFF_LENGTH + 1, 15000}}

InitReview ==
    /\ pc = "review"
    /\ req \in {[code_diff |-> d] : d \in ReviewDiffs}
    /\ data = Idle
    /\ calls = <<>>
    /\ env \in ReviewEnvs(TextsOf(ReplyPieces, MaxReplyPieces))
    /\ out = NoOut

Review ==
    /\ pc = "review"
    /\ calls' = ModelCallsOf(req.code_diff, env)
    /\ out' = Returned(ReviewCode(req.code_diff, env))
    /\ pc' = "done"
    /\ UNCHANGED <<req, data, env>>

NextReview == Review

SpecReview == InitReview /\ [][NextReview]_vars

\* A ReviewResult: a mapping with a non-empty text summary and a list of issues.
IsReviewResult(v) ==
    /\ v.t = "obj"
    /\ Chars("summary") \in DOMAIN v.o
    /\ v.o[Chars("summary")].t = "str"
    /\ v.o[Chars("summary")].s # <<>>
    /\ Chars("issues") \in DOMAIN v.o
    /\ v.o[Chars("issues")].t = "arr"

\* C1: whatever the key, the model call and the reply, review_code returns a
\* ReviewResult: summary present and non-empty, issues present.
C1_ReviewCodeReturnsReviewResult ==
    pc = "done" => out.kind = "returned" /\ IsReviewResult(out.v)

-----------------------------------------------------------------------------
(* webhook.py: verify_github_signature *)

\* The printable ASCII characters in code order, from 32 (space) to 126.
Ascii ==
    Chars(" !\"#$%&'()*+,-./0123456789:;<=>?@ABCDEFGHIJKLMNOPQRSTUVWXYZ[\\]^_")
        \o <<BQ>> \o Chars("abcdefghijklmnopqrstuvwxyz{|}~")

\* The code of every character of the model.
OrdOf ==
    [c \in {Ascii[i] : i \in 1..Len(Ascii)} \cup {"\n", EAcute} |->
        IF c = "\n" THEN 10
        ELSE IF c = EAcute THEN 233
        ELSE 31 + (CHOOSE i \in 1..Len(Ascii) : Ascii[i] = c)]

\* ord(c)
Ord(c) == OrdOf[c]

\* Whether every character of s is ASCII.
IsAscii(s) == \A i \in 1..Len(s) : Ord(s[i]) < 128

\* str.encode(): UTF-8, one byte below 128 and two bytes below 2048.
RECURSIVE Utf8Encode(_)
Utf8Encode(s) ==
    IF s = <<>> THEN <<>>
    ELSE LET n == Ord(Head(s))
         IN  (IF n < 128 THEN <<n>> ELSE <<192 + (n \div 64), 128 + (n % 64)>>)
                 \o Utf8Encode(Tail(s))

HexDigits == Chars("0123456789abcdef")

\* bytes.hex()
HexOf(bytes) ==
    [i \in 1..(2 * Len(bytes)) |->
        IF i % 2 = 1
        THEN HexDigits[(bytes[(i + 1) \div 2] \div 16) + 1]
        ELSE HexDigits[(bytes[i \div 2] % 16) + 1]]

\* The key as HMAC uses it: padded with zero bytes to the 64-byte block of
\* SHA-256 (the keys of the model are shorter than a block).
PadKey(key) == key \o [i \in 1..(64 - Len(key)) |-> 0]

\* hmac.new(key, msg, hashlib.sha256).hexdigest().  SHA-256 is taken to be
\* collision-free: the digest of the model is the hex of what is hashed, the
\* padded key followed by the message.
HmacHexdigest(key, msg) == HexOf(PadKey(key) \o msg)

\* The expected_signature of verify_github_signature.
ExpectedSignature(payload, secret) ==
    Chars("sha256=") \o HmacHexdigest(Utf8Encode(secret), payload)

\* hmac.compare_digest(a, b) on two str: TypeError unless both are ASCII.
CompareDigest(a, b) ==
    IF IsAscii(a) /\ IsAscii(b)
    THEN Returned(IF a = b THEN JTrue ELSE JFalse)
    ELSE Raised("TypeError")

VerifyIgnoringPayload(payload, signature, secret) ==
    IF secret = <<>> THEN Returned(JTrue)
    ELSE CompareDigest(ExpectedSignature(<<>>, secret), signature)

\* verify_github_signature(payload, signature, secret): what the call ends with.
VerifyGithubSignature(payload, signature, secret) ==
    IF secret = <<>> THEN Returned(JTrue)
    ELSE CompareDigest(ExpectedSignature(payload, secret), signature)

-----------------------------------------------------------------------------
(* verify_github_signature applied to a body, a header and a secret *)

MaxBodyLen == 2
MaxSecretLen == 2

\* The sequences over S of length at most n.
SeqsUpTo(S, n) == UNION {[1..k -> S] : k \in 0..n}

\* Byte values of bodies, characters of secrets.
BodyBytes == {97, 98}
SecretChars == {"k", EAcute}

VerifyBodies == SeqsUpTo(BodyBytes, MaxBodyLen)
VerifySecrets == SeqsUpTo(SecretChars, MaxSecretLen)

\* Headers: absent (""), not ASCII, a bare prefix, and the signature of every
\* body under every secret.
VerifyHeaders ==
    {<<>>, <<EAcute>>, Chars("sha256=")}
        \cup {ExpectedSignature(b, s) : b \in VerifyBodies, s \in VerifySecrets}

InitVerify ==
    /\ pc = "verify"
    /\ req \in [payload : VerifyBodies, signature : VerifyHeaders,
                secret : VerifySecrets]
    /\ data = Idle
    /\ calls = Idle
    /\ env = Idle
    /\ out = NoOut

Verify ==
    /\ pc = "verify"
    /\ out' = VerifyGithubSignature(req.payload, req.signature, req.secret)
    /\ pc' = "done"
    /\ UNCHANGED <<req, data, calls, env>>

NextVerify == Verify

SpecVerify == InitVerify /\ [][NextVerify]_vars

\* x and y have the same length and differ at exactly one position.
OneFlip(x, y) ==
    /\ Len(x) = Len(y)
    /\ Cardinality({i \in 1..Len(x) : x[i] # y[i]}) = 1

\* The signature of every body under every secret.
SignatureOf ==
    [b \in VerifyBodies, s \in VerifySecrets |-> ExpectedSignature(b, s)]

\* The signature in the request was computed from (b, s), and the request's
\* body or its secret is (b, s) with one byte flipped.
Tampered(b, s) ==
    /\ \/ s = req.secret /\ OneFlip(b, req.payload)
       \/ b = req.payload /\ OneFlip(s, req.secret)
    /\ req.signature = SignatureOf[b, s]

\* The reference predicate of the signature verifier.
ClaimedVerify(payload, signature, secret) ==
    \/ secret = <<>>
    \/ signature = Chars("sha256=") \o HmacHexdigest(Utf8Encode(secret), payload)

\* C4: verify always yields a boolean, and it is the reference predicate:
\* true when the secret is empty, else true exactly when the header is
\* "sha256=" followed by the hex HMAC-SHA256 of the body under the secret.
C4_VerifyIsReferencePredicate ==
    pc = "done" =>
        out = Returned(IF ClaimedVerify(req.payload, req.signature, req.secret)
                       THEN JTrue ELSE JFalse)

\* C5 as stated: the signature computed from (body, secret) verifies, and with
\* one byte of the body or of the secret flipped it does not, for all pairs.
C5_RoundTripAndTamperAllPairs ==
    pc = "done" =>
        /\ req.signature = SignatureOf[req.payload, req.secret]
               => out = Returned(JTrue)
        /\ (\E b \in VerifyBodies, s \in VerifySecrets : Tampered(b, s))
               => out = Returned(JFalse)

\* C5 amended: the signature computed from (body, secret) verifies for all
\* pairs; with a non-empty secret, one flipped byte of the body or of the
\* secret makes verification fail.
C5_RoundTripAndTamperNonEmptySecret ==
    pc = "done" =>
        /\ req.signature = SignatureOf[req.payload, req.secret]
               => out = Returned(JTrue)
        /\ (req.secret # <<>>
              /\ \E b \in VerifyBodies, s \in VerifySecrets : Tampered(b, s))
               => out = Returned(JFalse)

\* A tampered body was verified against the signature of the original, under
\* a non-empty secret.
C5_Witness ==
    /\ pc = "done"
    /\ req.secret # <<>>
    /\ \E b \in VerifyBodies : OneFlip(b, req.payload) /\ Tampered(b, req.secret)
    /\ out = Returned(JFalse)

-----------------------------------------------------------------------------
(* utils.py: is_valid_pr_event *)

\* dict.get(key, default)
DictGet(d, key, default) == IF key \in DOMAIN d.o THEN d.o[key] ELSE default

\* The dict of a set of <<key, value>> pairs with distinct keys.
DictOf(pairs) ==
    JObj([k \in {p[1] : p \in pairs} |-> (CHOOSE p \in pairs : p[1] = k)[2]])

IsValidPrEventWithoutRepository(payload) ==
    IF Chars("pull_request") \notin DOMAIN payload.o THEN FALSE
    ELSE DictGet(payload, Chars("action"), JStr(<<>>))
             \in {JStr(Chars("opened")), JStr(Chars("synchronize")),
                  JStr(Chars("reopened"))}

\* is_valid_pr_event(payload), payload a dict.
IsValidPrEvent(payload) ==
    IF Chars("pull_request") \notin DOMAIN payload.o THEN FALSE
    ELSE IF Chars("repository") \notin DOMAIN payload.o THEN FALSE
    ELSE DictGet(payload, Chars("action"), JStr(<<>>))
             \in {JStr(Chars("opened")), JStr(Chars("synchronize")),
                  JStr(Chars("reopened"))}

-----------------------------------------------------------------------------
(* is_valid_pr_event applied to a payload *)

\* The values a field of a payload takes; Absent is the key left out.
Absent == JV("absent", 0, <<>>, <<>>, <<>>)

ActionNames ==
    {Chars("opened"), Chars("synchronize"), Chars("reopened"), Chars("closed")}

\* The payloads: every choice of the three fields, and of an uninterpreted one.
ClassifyPayloads ==
    {DictOf({p \in {<<Chars("pull_request"), pr>>, <<Chars("repository"), repo>>,
                    <<Chars("action"), action>>, <<Chars("sender"), sender>>} :
                p[2] # Absent}) :
        pr \in {Absent, JNull, JObj(<<>>)},
        repo \in {Absent, JNull, JObj(<<>>)},
        action \in {Absent, JNull, JStr(<<>>)} \cup {JStr(a) : a \in ActionNames},
        sender \in {Absent, JObj(<<>>)}}

InitClassify ==
    /\ pc = "classify"
    /\ req \in {[payload |-> p] : p \in ClassifyPayloads}
    /\ data = Idle
    /\ calls = Idle
    /\ env = Idle
    /\ out = NoOut

Classify ==
    /\ pc = "classify"
    /\ out' = Returned(IF IsValidPrEvent(req.payload) THEN JTrue ELSE JFalse)
    /\ pc' = "done"
    /\ UNCHANGED <<req, data, calls, env>>

NextClassify == Classify

SpecClassify == InitClassify /\ [][NextClassify]_vars

\* The event has the key, whatever its value.
HasKey(payload, name) == Chars(name) \in DOMAIN payload.o

\* The event's action is one of the three accepted names.
HasAcceptedAction(payload) ==
    /\ HasKey(payload, "action")
    /\ payload.o[Chars("action")].t = "str"
    /\ payload.o[Chars("action")].s
           \in {Chars("opened"), Chars("synchronize"), Chars("reopened")}

\* C6: is_reviewable returns true if and only if the event has a pull_request
\* key, a repository key and an action among opened, synchronize, reopened; it
\* returns false, and does not raise, for every other mapping.
C6_ReviewableIffBothKeysAndAcceptedAction ==
    pc = "done" =>
        out = Returned(IF /\ HasKey(req.payload, "pull_request")
                          /\ HasKey(req.payload, "repository")
                          /\ HasAcceptedAction(req.payload)
                       THEN JTrue ELSE JFalse)

\* A payload with an accepted action and a pull request but no repository was
\* classified as not reviewable.
C6_Witness ==
    /\ pc = "done"
    /\ HasKey(req.payload, "pull_request")
    /\ ~HasKey(req.payload, "repository")
    /\ HasAcceptedAction(req.payload)
    /\ out = Returned(JFalse)

-----------------------------------------------------------------------------
(* utils.py: sanitize_for_logging *)

LowerLetters == Chars("abcdefghijklmnopqrstuvwxyz")
UpperLetters == Chars("ABCDEFGHIJKLMNOPQRSTUVWXYZ")

\* [a-zA-Z0-9]
AlnumChars ==
    {LowerLetters[i] : i \in 1..26} \cup {UpperLetters[i] : i \in 1..26} \cup Digits

\* The lower case of every upper-case letter.
LowerOf ==
    [c \in {UpperLetters[i] : i \in 1..26} |->
        LowerLetters[CHOOSE i \in 1..26 : UpperLetters[i] = c]]

Lower(c) == IF c \in DOMAIN LowerOf THEN LowerOf[c] ELSE c

\* Whether the lower-case literal pat matches t at 0-based offset k under
\* re.IGNORECASE.
MatchesAtIgnoreCase(t, pat, k) ==
    /\ k + Len(pat) <= Len(t)
    /\ \A j \in 1..Len(pat) : Lower(t[k + j]) = pat[j]

\* A match of a pattern at an offset: its length (0: no match) and the text
\* that replaces it.
NoMatch == [len |-> 0, repl |-> <<>>]

\* prefix[a-zA-Z0-9]{n} at offset k, replaced by a fixed text.
TokenMatch(t, k, prefix, n, repl) ==
    IF /\ MatchesAtIgnoreCase(t, prefix, k)
       /\ k + Len(prefix) + n <= Len(t)
       /\ \A j \in 1..n : t[k + Len(prefix) + j] \in AlnumChars
    THEN [len |-> Len(prefix) + n, repl |-> repl]
    ELSE NoMatch

\* The 1-based position after the run of non-whitespace characters from i.
NonSpaceEnd(t, i) ==
    LET stops == {j \in i..Len(t) : t[j] \in Whitespace}
    IN  IF stops = {} THEN Len(t) + 1
        ELSE CHOOSE j \in stops : \A h \in stops : j <= h

KeyWords == <<Chars("token"), Chars("key"), Chars("secret"), Chars("password")>>

\* The keywords of the alternation that match at offset k followed by "=" and
\* a character that is not whitespace (the four start with different letters:
\* at most one does).
KeyWordsAt(t, k) ==
    {w \in 1..4 :
        /\ MatchesAtIgnoreCase(t, KeyWords[w] \o <<"=">>, k)
        /\ NonSpaceEnd(t, k + Len(KeyWords[w]) + 2) > k + Len(KeyWords[w]) + 2}

KeyValueMatchLazy(t, k) ==
    IF KeyWordsAt(t, k) = {} THEN NoMatch
    ELSE LET n == Len(KeyWords[CHOOSE w \in KeyWordsAt(t, k) : TRUE])
         IN  [len |-> n + 2,
              repl |-> SubSeq(t, k + 1, k + n) \o Chars("=***REDACTED***")]

\* (token|key|secret|password)=\S+ at offset k: \S+ is greedy, and the
\* replacement keeps group 1 as it was written.
KeyValueMatch(t, k) ==
    IF KeyWordsAt(t, k) = {} THEN NoMatch
    ELSE LET n == Len(KeyWords[CHOOSE w \in KeyWordsAt(t, k) : TRUE])
         IN  [len |-> NonSpaceEnd(t, k + n + 2) - 1 - k,
              repl |-> SubSeq(t, k + 1, k + n) \o Chars("=***REDACTED***")]

\* The patterns in the order of the list, each with its replacement.
PatternMatch(rule, t, k) ==
    CASE rule = 1 -> TokenMatch(t, k, Chars("ghp_"), 36, Chars("ghp_***REDACTED***"))
      [] rule = 2 -> TokenMatch(t, k, Chars("sk-"), 48, Chars("sk-***REDACTED***"))
      [] rule = 3 -> KeyValueMatch(t, k)

\* re.sub(pattern, replacement, t, flags=re.IGNORECASE) from offset k on: the
\* leftmost match is replaced and the scan goes on after it.
RECURSIVE ReSubFrom(_, _, _)
ReSubFrom(rule, t, k) ==
    LET hits == {j \in k..(Len(t) - 1) : PatternMatch(rule, t, j).len > 0}
        first == CHOOSE j \in hits : \A h \in hits : j <= h
        m == PatternMatch(rule, t, first)
    IN  IF hits = {} THEN SubSeq(t, k + 1, Len(t))
        ELSE SubSeq(t, k + 1, first) \o m.repl \o ReSubFrom(rule, t, first + m.len)

\* sanitize_for_logging(text): each rule on the result of the one before.
SanitizeForLogging(text) == ReSubFrom(3, ReSubFrom(2, ReSubFrom(1, text, 0), 0), 0)

-----------------------------------------------------------------------------
(* sanitize_for_logging applied to a text, then to its own result *)

MaxSanitizePieces == 4

\* The fragments of the texts: the two token prefixes (one in upper case),
\* runs of 36 and of 12 alphanumerics (together 48), a keyword, "=", a space.
SanitizePieces ==
    {Chars("ghp_"), Chars("SK-"), [i \in 1..36 |-> "a"], [i \in 1..12 |-> "7"],
     Chars("Key"), <<"=">>, <<" ">>}

InitSanitize ==
    /\ pc = "sanitize"
    /\ req \in {[text |-> x] : x \in TextsOf(SanitizePieces, MaxSanitizePieces)}
    /\ data = NoOut
    /\ calls = Idle
    /\ env = Idle
    /\ out = NoOut

\* sanitize(x)
Sanitize ==
    /\ pc = "sanitize"
    /\ out' = Returned(JStr(SanitizeForLogging(req.text)))
    /\ pc' = "sanitized"
    /\ UNCHANGED <<req, data, calls, env>>

\* sanitize(sanitize(x)): data keeps the result of the first pass.
SanitizeAgain ==
    /\ pc = "sanitized"
    /\ data' = out
    /\ out' = Returned(JStr(SanitizeForLogging(out.v.s)))
    /\ pc' = "done"
    /\ UNCHANGED <<req, calls, env>>

NextSanitize == Sanitize \/ SanitizeAgain

SpecSanitize == InitSanitize /\ [][NextSanitize]_vars

\* C10: sanitize is idempotent: sanitize(sanitize(x)) = sanitize(x).
C10_SanitizeIdempotent == pc = "done" => out = data

\* A text in which a rule redacted something was sanitized twice.
C10_Witness ==
    /\ pc = "done"
    /\ data.v.s # req.text
    /\ Contains(data.v.s, Chars("=***REDACTED***"))

-----------------------------------------------------------------------------
(* webhook.py: handle_webhook *)

\* The bytes of an ASCII text, and the text of bytes: body.decode().  ok is
\* FALSE for a byte the decoder of the model does not know.
AsciiBytes(s) == [i \in 1..Len(s) |-> Ord(s[i])]

Decodable(bytes) ==
    \A i \in 1..Len(bytes) : bytes[i] = 10 \/ (bytes[i] >= 32 /\ bytes[i] <= 126)

Decode(bytes) ==
    [i \in 1..Len(bytes) |-> IF bytes[i] = 10 THEN "\n" ELSE Ascii[bytes[i] - 31]]

\* await request.json(): json.loads of the body; ok is FALSE where it raises.
RequestJson(payload) ==
    IF Decodable(payload) THEN JsonLoads(Decode(payload))
    ELSE [ok |-> FALSE, v |-> JNull]

\* "key" in v: a key of a dict, an element of a list, a substring of a str,
\* and TypeError for a value that is no container.
PyIn(key, v) ==
    CASE v.t = "obj" -> Returned(IF key \in DOMAIN v.o THEN JTrue ELSE JFalse)
      [] v.t = "arr" ->
            Returned(IF \E i \in 1..Len(v.a) : v.a[i] = JStr(key)
                     THEN JTrue ELSE JFalse)
      [] v.t = "str" -> Returned(IF Contains(v.s, key) THEN JTrue ELSE JFalse)
      [] OTHER -> Raised("TypeError")

\* v[key], key a str: KeyError for a dict without it, TypeError for a value
\* that is not a dict.
Subscript(v, key) ==
    IF v.t # "obj" THEN Raised("TypeError")
    ELSE IF key \notin DOMAIN v.o THEN Raised("KeyError")
    ELSE Returned(v.o[key])

\* The decimal digits of n >= 0.
RECURSIVE NumText(_)
NumText(n) ==
    IF n < 10 THEN <<HexDigits[n + 1]>>
    ELSE NumText(n \div 10) \o <<HexDigits[(n % 10) + 1]>>

\* str(v), as an f-string embeds it (a list or a dict is one element).
PyStr(v) ==
    CASE v.t = "str" -> v.s
      [] v.t = "null" -> Chars("None")
      [] v.t = "true" -> Chars("True")
      [] v.t = "false" -> Chars("False")
      [] v.t = "num" -> (IF v.n < 0 THEN <<"-">> \o NumText(0 - v.n) ELSE NumText(v.n))
      [] OTHER -> <<"<repr>">>

\* len(v): TypeError for a value without a length.
PyLen(v) ==
    CASE v.t = "str" -> Returned(JNum(Len(v.s)))
      [] v.t = "arr" -> Returned(JNum(Len(v.a)))
      [] v.t = "obj" -> Returned(JNum(Cardinality(DOMAIN v.o)))
      [] OTHER -> Raised("TypeError")

Dict4(k1, v1, k2, v2, k3, v3, k4, v4) ==
    JObj(DictPut(Dict3(k1, v1, k2, v2, k3, v3).o, Chars(k4), v4))

\* The responses of handle_webhook.
Ignored(reason) ==
    Dict2("status", JStr(Chars("ignored")), "reason", JStr(reason))

NoDiffError ==
    Dict2("status", JStr(Chars("error")),
          "message", JStr(Chars("Could not fetch PR diff")))

Success(repo_full_name, pr_number, review_result) ==
    Dict4("status", JStr(Chars("success")), "repository", repo_full_name,
          "pull_request", pr_number, "review", review_result)

\* What the handler holds between its steps.
NoData ==
    [event |-> JNull, repo_full_name |-> JNull, pr_number |-> JNull,
     pr_title |-> JNull, diff |-> <<>>, review_result |-> JNull]

\* The handler ends with o.
Finish(o) == pc' = "done" /\ out' = o

\* Lines 80-92: the signature is verified; HTTPException(401) unless it is
\* valid.  An exception of the verifier is not caught.
VerifySignatureWithoutReject ==
    /\ pc = "received"
    /\ calls' = Append(calls, Call("verify", <<>>))
    /\ LET v == VerifyGithubSignature(req.payload, req.signature, env.secret)
       IN  IF v.kind = "raised" THEN Finish(v)
           ELSE pc' = "authenticated" /\ out' = out
    /\ UNCHANGED <<req, data, env>>

VerifySignature ==
    /\ pc = "received"
    /\ calls' = Append(calls, Call("verify", <<>>))
    /\ LET v == VerifyGithubSignature(req.payload, req.signature, env.secret)
       IN  IF v.kind = "raised" THEN Finish(v)
           ELSE IF v.v # JTrue THEN Finish(HttpError(401))
           ELSE pc' = "authenticated" /\ out' = out
    /\ UNCHANGED <<req, data, env>>

\* Lines 94-99: the body is parsed; HTTPException(400) when that raises.
ParseBody ==
    /\ pc = "authenticated"
    /\ calls' = Append(calls, Call("json", <<>>))
    /\ LET r == RequestJson(req.payload)
       IN  IF ~r.ok THEN Finish(HttpError(400)) /\ data' = data
           ELSE /\ pc' = "parsed"
                /\ data' = [data EXCEPT !.event = r.v]
                /\ out' = out
    /\ UNCHANGED <<req, env>>

\* The actions the handler processes.
ProcessedActions == {JStr(Chars("opened")), JStr(Chars("synchronize"))}

\* Lines 101-115 with the list of is_valid_pr_event in place of the handler's.
ClassifyEventAcceptingReopened ==
    /\ pc = "parsed"
    /\ calls' = Append(calls, Call("classify", <<>>))
    /\ LET has == PyIn(Chars("pull_request"), data.event)
           action == DictGet(data.event, Chars("action"), JStr(<<>>))
       IN  IF has.kind = "raised" THEN Finish(has)
           ELSE IF has.v = JFalse
           THEN Finish(Returned(Ignored(Chars("Not a pull request event"))))
           ELSE IF data.event.t # "obj" THEN Finish(Raised("AttributeError"))
           ELSE IF action \notin ProcessedActions \cup {JStr(Chars("reopened"))}
           THEN Finish(Returned(Ignored(Chars("Action '") \o PyStr(action)
                                            \o Chars("' not processed"))))
           ELSE pc' = "classified" /\ out' = out
    /\ UNCHANGED <<req, data, env>>

\* Lines 101-115: an event without pull_request, or with an action that is
\* not processed, is ignored.  data.get exists on a dict only.
ClassifyEvent ==
    /\ pc = "parsed"
    /\ calls' = Append(calls, Call("classify", <<>>))
    /\ LET has == PyIn(Chars("pull_request"), data.event)
           action == DictGet(data.event, Chars("action"), JStr(<<>>))
       IN  IF has.kind = "raised" THEN Finish(has)
           ELSE IF has.v = JFalse
           THEN Finish(Returned(Ignored(Chars("Not a pull request event"))))
           ELSE IF data.event.t # "obj" THEN Finish(Raised("AttributeError"))
           ELSE IF action \notin ProcessedActions
           THEN Finish(Returned(Ignored(Chars("Action '") \o PyStr(action)
                                            \o Chars("' not processed"))))
           ELSE pc' = "classified" /\ out' = out
    /\ UNCHANGED <<req, data, env>>

\* a[k1][k2]
Subscript2(v, k1, k2) ==
    IF Subscript(v, Chars(k1)).kind = "raised" THEN Subscript(v, Chars(k1))
    ELSE Subscript(Subscript(v, Chars(k1)).v, Chars(k2))

\* Lines 117-123: the repository name, the number and the title of the pull
\* request are read; a missing key or a value that is no dict raises.
ExtractFields ==
    /\ pc = "classified"
    /\ LET repo == Subscript2(data.event, "repository", "full_name")
           number == Subscript2(data.event, "pull_request", "number")
           title == Subscript2(data.event, "pull_request", "title")
       IN  IF repo.kind = "raised" THEN Finish(repo) /\ data' = data
           ELSE IF number.kind = "raised" THEN Finish(number) /\ data' = data
           ELSE IF title.kind = "raised" THEN Finish(title) /\ data' = data
           ELSE /\ pc' = "extracted"
                /\ data' = [data EXCEPT !.repo_full_name = repo.v,
                                        !.pr_number = number.v,
                                        !.pr_title = title.v]
                /\ out' = out
    /\ UNCHANGED <<req, calls, env>>

\* What get_pull_request_diff returns: the diff, or "" on any failure.
FetchResults == {<<>>, Chars("+x")} \cup LongDiffs

\* Lines 125-133: the diff is fetched; without one the handler answers with
\* the error response.
FetchDiff ==
    /\ pc = "extracted"
    /\ \E diff \in FetchResults :
        /\ calls' = Append(calls, Call("fetch", PyStr(data.repo_full_name)
                                          \o <<"#">> \o PyStr(data.pr_number)))
        /\ data' = [data EXCEPT !.diff = diff]
        /\ IF diff = <<>> THEN Finish(Returned(NoDiffError))
           ELSE pc' = "fetched" /\ out' = out
    /\ UNCHANGED <<req, env>>

\* The replies of the model during a webhook transaction.
WebhookReplies ==
    {ResultText, Chars("{}"), Chars("42"), Chars("{\"issues\":null}"),
     Chars("no json here")}

\* Lines 135-137: review_code(diff), whatever the provider does.
ReviewDiff ==
    /\ pc = "fetched"
    /\ \E e \in ReviewEnvs(WebhookReplies) :
        /\ calls' = calls \o ModelCallsOf(data.diff, e)
        /\ data' = [data EXCEPT !.review_result = ReviewCode(data.diff, e)]
        /\ env' = [env EXCEPT !.model = e]
    /\ pc' = "reviewed"
    /\ UNCHANGED <<req, out>>

\* Lines 139-149: the summary and the number of issues are logged, then the
\* success response is returned.  review_result.get exists on a dict only, and
\* len raises on an issues value without a length.
Respond ==
    /\ pc = "reviewed"
    /\ LET r == data.review_result
           issues == DictGet(r, Chars("issues"), JArr(<<>>))
       IN  IF r.t # "obj" THEN Finish(Raised("AttributeError"))
           ELSE IF PyLen(issues).kind = "raised" THEN Finish(PyLen(issues))
           ELSE Finish(Returned(Success(data.repo_full_name, data.pr_number, r)))
    /\ UNCHANGED <<req, data, calls, env>>

-----------------------------------------------------------------------------
(* The webhook transactions *)

\* The members of an event body: each field absent (""), well-formed,
\* an empty object, or null.
PullRequestMembers ==
    {<<>>, Chars("\"pull_request\":{\"number\":7,\"title\":\"t\"}"),
     Chars("\"pull_request\":{}"), Chars("\"pull_request\":null")}

RepositoryMembers ==
    {<<>>, Chars("\"repository\":{\"full_name\":\"o/r\"}"),
     Chars("\"repository\":{}"), Chars("\"repository\":null")}

ActionMembers ==
    {<<>>} \cup {Chars("\"action\":\"") \o a \o <<"\"">> : a \in ActionNames}

\* The members that are present, separated by commas.
RECURSIVE JoinMembers(_)
JoinMembers(ms) ==
    IF ms = <<>> THEN <<>>
    ELSE IF Head(ms) = <<>> THEN JoinMembers(Tail(ms))
    ELSE IF JoinMembers(Tail(ms)) = <<>> THEN Head(ms)
    ELSE Head(ms) \o <<",">> \o JoinMembers(Tail(ms))

\* The bodies: every object made of the members, and bodies that are no
\* object or no JSON.
WebhookBodies ==
    {<<"{">> \o JoinMembers(<<a, p, r>>) \o <<"}">> :
        a \in ActionMembers, p \in PullRequestMembers, r \in RepositoryMembers}
    \cup {Chars("42"), Chars("[]"), Chars("\"pull_request\""),
          Chars("[\"pull_request\"]"), Chars("{")}

\* The secret configured, when one is, and the secret of somebody else.
WebhookSecret == Chars("s3cret")
OtherSecret == Chars("guess")

\* The requests: a body with no signature, the right one, one made with
\* another secret, or a header that is not ASCII.
WebhookRequests ==
    {[payload |-> AsciiBytes(b), signature |-> s] :
        b \in WebhookBodies,
        s \in {<<>>, <<EAcute>>}}
    \cup {[payload |-> AsciiBytes(b),
           signature |-> ExpectedSignature(AsciiBytes(b), k)] :
            b \in WebhookBodies, k \in {WebhookSecret, OtherSecret}}

NoModel == [api_key |-> FALSE, call |-> "text", reply |-> <<>>]

Init ==
    /\ pc = "received"
    /\ req \in WebhookRequests
    /\ data = NoData
    /\ calls = <<>>
    /\ env \in {[secret |-> k, model |-> NoModel] : k \in {<<>>, WebhookSecret}}
    /\ out = NoOut

Next ==
    \/ VerifySignature
    \/ ParseBody
    \/ ClassifyEvent
    \/ ExtractFields
    \/ FetchDiff
    \/ ReviewDiff
    \/ Respond

Spec == Init /\ [][Next]_vars

-----------------------------------------------------------------------------
(* Properties of the webhook transactions *)

\* The collaborators invoked so far.
Invoked(op) == \E i \in 1..Len(calls) : calls[i].op = op

\* The status of a response that is a dict with one.
StatusOf(o) ==
    IF o.kind = "returned" /\ o.v.t = "obj" /\ Chars("status") \in DOMAIN o.v.o
    THEN o.v.o[Chars("status")]
    ELSE JNull

\* C2: every transaction ends in one of the five outcomes: 401, 400, or a
\* response whose status is ignored, error or success; no exception leaves
\* the handler.
C2_EndsInDefinedOutcome ==
    pc = "done" =>
        \/ out \in {HttpError(401), HttpError(400)}
        \/ StatusOf(out) \in {JStr(Chars("ignored")), JStr(Chars("error")),
                              JStr(Chars("success"))}

\* The verifier says false for the request.
VerifyFalse ==
    VerifyGithubSignature(req.payload, req.signature, env.secret) = Returned(JFalse)

\* C3: when the verifier returns false the transaction is rejected with 401
\* before anything else: the body is never parsed or classified, the diff is
\* never fetched and the model is never called.
C3_RejectedBeforeProcessing ==
    VerifyFalse =>
        /\ pc \in {"received", "done"}
        /\ data = NoData
        /\ \A i \in 1..Len(calls) : calls[i].op = "verify"
        /\ pc = "done" => out = HttpError(401)

\* A body that would be reviewed arrives with the signature of another secret
\* and is rejected.
C3_Witness ==
    /\ pc = "done"
    /\ VerifyFalse
    /\ out = HttpError(401)
    /\ req.signature = ExpectedSignature(req.payload, OtherSecret)
    /\ RequestJson(req.payload).v.t = "obj"
    /\ IsValidPrEvent(RequestJson(req.payload).v)

\* The action of a parsed event, as data.get("action", "") reads it.
ActionOf(event) == DictGet(event, Chars("action"), JStr(<<>>))

ActionReason(event) ==
    Chars("Action '") \o PyStr(ActionOf(event)) \o Chars("' not processed")

\* The event is parsed, is a dict, and its action is not one the handler
\* processes.
UnprocessedAction ==
    /\ data.event.t = "obj"
    /\ ActionOf(data.event) \notin ProcessedActions

\* C7 as stated: every authenticated event whose action is not opened or
\* synchronize is answered with status ignored and the reason
\* "Action '<action>' not processed", and neither the diff fetch nor the model
\* is invoked.
C7_IgnoredWithActionReason ==
    UnprocessedAction =>
        /\ ~Invoked("fetch") /\ ~Invoked("model")
        /\ pc = "done" => out = Returned(Ignored(ActionReason(data.event)))

\* C7 amended: for every authenticated event whose action is not opened or
\* synchronize, neither the diff fetch nor the model is invoked, and the
\* answer is status ignored with the reason "Action '<action>' not processed"
\* when the event has a pull_request key, and with the reason
\* "Not a pull request event" when it has none.
C7_IgnoredWithReasonByKey ==
    UnprocessedAction =>
        /\ ~Invoked("fetch") /\ ~Invoked("model")
        /\ pc \in {"parsed", "done"}
        /\ pc = "done" =>
            out = Returned(Ignored(
                    IF Chars("pull_request") \in DOMAIN data.event.o
                    THEN ActionReason(data.event)
                    ELSE Chars("Not a pull request event")))

\* A signed reopened event of a pull request is ignored for its action.
C7_Witness ==
    /\ pc = "done"
    /\ env.secret = WebhookSecret
    /\ UnprocessedAction
    /\ ActionOf(data.event) = JStr(Chars("reopened"))
    /\ IsValidPrEvent(data.event)
    /\ out = Returned(Ignored(Chars("Action 'reopened' not processed")))

-----------------------------------------------------------------------------
(* webhook.py: manual_review, and the two entries that reach review_code *)

\* request.code is empty or whitespace only.
NoCode(code) == Strip(code) = <<>>

\* manual_review(request): HTTPException(400) without code, else the result
\* of review_code(request.code), whatever the provider does.
ManualReview ==
    /\ pc = "manual"
    /\ IF NoCode(req.code)
       THEN /\ Finish(HttpError(400))
            /\ UNCHANGED <<data, calls, env>>
       ELSE \E e \in ReviewEnvs(WebhookReplies) :
            /\ calls' = calls \o ModelCallsOf(req.code, e)
            /\ data' = [data EXCEPT !.diff = req.code,
                                    !.review_result = ReviewCode(req.code, e)]
            /\ env' = [env EXCEPT !.model = e]
            /\ Finish(Returned(ReviewCode(req.code, e)))
    /\ UNCHANGED req

\* The code a manual request carries.
ManualCodes == {<<>>, Chars(" \n"), Chars("+x")} \cup LongDiffs

\* A signed opened event of a pull request.
OpenedEvent ==
    Chars("{\"action\":\"opened\",\"pull_request\":{\"number\":7,\"title\":\"t\"},\"repository\":{\"full_name\":\"o/r\"}}")

\* Both entries: a webhook delivery that is reviewed, or a manual request.
InitPrompt ==
    /\ \/ /\ pc = "received"
          /\ req = [payload |-> AsciiBytes(OpenedEvent),
                    signature |-> ExpectedSignature(AsciiBytes(OpenedEvent),
                                                    WebhookSecret)]
       \/ /\ pc = "manual"
          /\ req \in {[code |-> c] : c \in ManualCodes}
    /\ data = NoData
    /\ calls = <<>>
    /\ env = [secret |-> WebhookSecret, model |-> NoModel]
    /\ out = NoOut

NextPrompt ==
    \/ Next
    \/ ManualReview

SpecPrompt == InitPrompt /\ [][NextPrompt]_vars

\* The diff handed to review_code in this transaction.
ReviewedDiff == data.diff

\* What the prompt must embed for diff d: d itself up to 10,000 characters,
\* else its first 10,000 characters and the truncation marker.
ClaimedEmbedded(d) ==
    IF Len(d) <= 10000 THEN d
    ELSE SubSeq(d, 1, 10000) \o Chars("\n\n[... diff truncated for length ...]")

\* C11: on both entries, every prompt handed to the model embeds the diff
\* capped: unchanged and without marker up to 10,000 characters, else exactly
\* the first 10,000 characters followed by the truncation marker.
C11_PromptEmbedsCappedDiff ==
    \A i \in 1..Len(calls) :
        calls[i].op = "model" =>
            /\ calls[i].arg = CreateReviewPrompt(ClaimedEmbedded(ReviewedDiff))
            /\ Len(calls[i].arg) <= Len(CreateReviewPrompt(<<>>)) + 10000
                                      + Len(TruncationMarker)
            /\ Len(ReviewedDiff) <= 10000 =>
                  ~Contains(calls[i].arg, Chars("truncated"))

\* A fetched diff of 15,000 characters reached the model as 10,000 characters
\* and the marker.
C11_Witness ==
    /\ pc = "done"
    /\ "payload" \in DOMAIN req
    /\ Len(data.diff) = 15000
    /\ Invoked("model")
    /\ \E i \in 1..Len(calls) :
        /\ calls[i].op = "model"
        /\ Contains(calls[i].arg, SubSeq(data.diff, 9999, 10000) \o TruncationMarker)

-----------------------------------------------------------------------------
(* Properties of the failures of review_code *)

\* v is a result with this summary and a single issue of Critical severity.
IsFailureResult(v, summary) ==
    /\ IsReviewResult(v)
    /\ v.o[Chars("summary")] = JStr(Chars(summary))
    /\ Len(v.o[Chars("issues")].a) = 1
    /\ v.o[Chars("issues")].a[1].t = "obj"
    /\ Chars("severity") \in DOMAIN v.o[Chars("issues")].a[1].o
    /\ v.o[Chars("issues")].a[1].o[Chars("severity")] = JStr(Chars("Critical"))

\* C12: review_code never raises; it returns the configuration-error result
\* when, and only when, the credential is missing, and the result
\* "Review failed due to an error." for every other exception of the model
\* call or of the handling of its reply.
C12_FailuresClassifiedByCause ==
    pc = "done" =>
        /\ out.kind = "returned"
        /\ IsFailureResult(out.v, "Review failed due to configuration error.")
              <=> ~env.api_key
        /\ (env.api_key /\ env.call # "text") =>
              IsFailureResult(out.v, "Review failed due to an error.")

-----------------------------------------------------------------------------
(* The handler against the classifier *)

\* The event is parsed, is a dict, and is_valid_pr_event says False for it.
NotReviewable ==
    /\ data.event.t = "obj"
    /\ ~IsValidPrEvent(data.event)

\* C13: every authenticated, parsed event for which is_valid_pr_event returns
\* False ends with a response of status ignored, and the diff is fetched only
\* for events for which it returns True.
C13_HandlerFollowsClassifier ==
    /\ NotReviewable => (pc = "done" => StatusOf(out) = JStr(Chars("ignored")))
    /\ Invoked("fetch") => (data.event.t = "obj" /\ IsValidPrEvent(data.event))

====
